---- MODULE Spec2Model ----
(***************************************************************************)
(* Model of dlr2d::imfreq_ops_2d (src/src/dlr2d_imfreq.hpp): the operator  *)
(* object holding the 2D DLR imaginary frequency nodes, the coefficient -> *)
(* value matrix cf2if and its LU factorization if2cf, its constructors,    *)
(* its transforms (vals2coefs, coefs2vals, coefs2eval), its accessors and  *)
(* its persistence (serialize / deserialize, h5_write / h5_read), driven   *)
(* the way src/programs/imfreq_ops_2d.cpp drives it: two objects, ifops    *)
(* and ifops_ref, one HDF5 subgroup and one archive.                       *)
(*                                                                         *)
(* Scalars are exact Gaussian rationals, so every statement about values   *)
(* is a statement in exact arithmetic.  Doubles that are only stored and   *)
(* copied (lambda, eps, the real frequencies) are integer codes.           *)
(***************************************************************************)
EXTENDS Integers, Sequences, FiniteSets, TLC

\* ------------------------------------------------------------------ bounds
\* Largest number of 2D nodes the node selector returns.
MaxRank == 2
\* Largest extent of a trailing (batch) axis of a caller's array.
MaxBatch == 2

\* ------------------------------------------------- complex scalars (dcomplex)
\* <<a, b, d>> is (a + b i) / d with d > 0 and gcd(a, b, d) = 1.
Abs(x) == IF x < 0 THEN -x ELSE x

RECURSIVE Gcd(_, _)
Gcd(a, b) == IF b = 0 THEN a ELSE Gcd(b, a % b)

CNorm(a, b, d) ==
  LET g == Gcd(Gcd(Abs(a), Abs(b)), d)
  IN  <<a \div g, b \div g, d \div g>>

CZero == <<0, 0, 1>>
CInt(a, b) == <<a, b, 1>>
\* Sums go over the least common denominator and products cancel across
\* the two fractions first, which keeps the integers small.
CAdd(x, y) ==
  LET g == Gcd(x[3], y[3])
  IN  CNorm(x[1] * (y[3] \div g) + y[1] * (x[3] \div g),
            x[2] * (y[3] \div g) + y[2] * (x[3] \div g),
            (x[3] \div g) * y[3])
CNeg(x) == <<-x[1], -x[2], x[3]>>
CSub(x, y) == CAdd(x, CNeg(y))
CMul(x, y) ==
  LET g == Gcd(Gcd(Abs(x[1]), Abs(x[2])), y[3])
      h == Gcd(Gcd(Abs(y[1]), Abs(y[2])), x[3])
      a == x[1] \div g
      b == x[2] \div g
      c == y[1] \div h
      e == y[2] \div h
  IN  CNorm(a * c - b * e, a * e + b * c, (x[3] \div h) * (y[3] \div g))
CInv(x) == CNorm(x[3] * x[1], -(x[3] * x[2]), x[1] * x[1] + x[2] * x[2])
CDiv(x, y) == CMul(x, CInv(y))
\* |re| + |im|, the magnitude LAPACK's izamax compares.
Cabs1Less(x, y) == (Abs(x[1]) + Abs(x[2])) * y[3] < (Abs(y[1]) + Abs(y[2])) * x[3]

\* ------------------------------------------------------------ dense matrices
\* A matrix is a sequence of rows; extent(0) is the row count, extent(1) the
\* column count.  The empty matrix <<>> is a default-constructed one.
Extent0(M) == Len(M)
Extent1(M) == IF Len(M) = 0 THEN 0 ELSE Len(M[1])

RECURSIVE CSum(_, _)
CSum(f, n) == IF n = 0 THEN CZero ELSE CAdd(CSum(f, n - 1), f[n])

\* A sequence given as a function on 1..n, as the tuple of its elements.
Tuple(f) == f \o <<>>

SwapRows(M, k, p) ==
  Tuple([i \in 1..Len(M) |-> IF i = k THEN M[p] ELSE IF i = p THEN M[k] ELSE M[i]])

\* Row index of the first entry of largest magnitude in column k, rows k..n.
RECURSIVE PivotRow(_, _, _, _)
PivotRow(M, k, i, best) ==
  IF i > Len(M) THEN best
  ELSE PivotRow(M, k, i + 1, IF Cabs1Less(M[best][k], M[i][k]) THEN i ELSE best)

\* One elimination step of the right-looking LU on column k.
Eliminate(M, k) ==
  Tuple([i \in 1..Len(M) |->
     IF i <= k THEN M[i]
     ELSE LET l == CDiv(M[i][k], M[k][k])
          IN  Tuple([j \in 1..Len(M[i]) |->
                 IF j < k THEN M[i][j]
                 ELSE IF j = k THEN l
                 ELSE CSub(M[i][j], CMul(l, M[k][j]))])])

\* nda::lapack::getrf: LU with partial pivoting, in place; piv[k] is the row
\* swapped with row k.  Entries of piv beyond the matrix order are left alone.
RECURSIVE GetrfFrom(_, _, _)
GetrfFrom(M, piv, k) ==
  IF k > Len(M) THEN [lu |-> M, piv |-> piv]
  ELSE LET p == PivotRow(M, k, k, k)
           S == SwapRows(M, k, p)
       IN  IF S[k][k] = CZero
           THEN GetrfFrom(S, [piv EXCEPT ![k] = p], k + 1)
           ELSE GetrfFrom(Eliminate(S, k), [piv EXCEPT ![k] = p], k + 1)

getrf(M, piv) == GetrfFrom(M, piv, 1)

\* The row interchanges of getrs, applied to one column in the order k = 1..n.
RECURSIVE ApplyPiv(_, _, _, _)
ApplyPiv(b, piv, k, n) ==
  IF k > n THEN b
  ELSE ApplyPiv(Tuple([i \in 1..Len(b) |->
                   IF i = k THEN b[piv[k]] ELSE IF i = piv[k] THEN b[k] ELSE b[i]]),
                piv, k + 1, n)

\* Forward substitution with the unit lower triangle of lu.
RECURSIVE ForwardL(_, _, _, _)
ForwardL(lu, b, k, n) ==
  IF k > n THEN b
  ELSE LET s == CSum([j \in 1..(k - 1) |-> CMul(lu[k][j], b[j])], k - 1)
       IN  ForwardL(lu, [b EXCEPT ![k] = CSub(b[k], s)], k + 1, n)

\* Back substitution with the upper triangle of lu.
RECURSIVE BackwardU(_, _, _, _)
BackwardU(lu, b, k, n) ==
  IF k < 1 THEN b
  ELSE LET s == CSum([j \in 1..(n - k) |-> CMul(lu[k][k + j], b[k + j])], n - k)
       IN  BackwardU(lu, [b EXCEPT ![k] = CDiv(CSub(b[k], s), lu[k][k])], k - 1, n)

\* nda::lapack::getrs on one right-hand side: the system of order n = extent(0)
\* of lu is solved in the leading n entries of the column (leading dimension
\* Len(b) >= n), the entries below are not touched.
GetrsColumn(lu, b, piv) ==
  LET n == Len(lu)
  IN  BackwardU(lu, ForwardL(lu, ApplyPiv(b, piv, 1, n), 1, n), n, n)

\* ------------------------------------------------------- nda arrays (data)
\* An array is its shape, its memory layout ("C": last index fastest, "F":
\* first index fastest) and its elements in memory order.  Indices and
\* offsets are 0-based as in nda, positions in data are 1-based.
RECURSIVE Prod(_, _, _)
Prod(shape, lo, hi) == IF lo > hi THEN 1 ELSE shape[lo] * Prod(shape, lo + 1, hi)

ArrSize(shape) == Prod(shape, 1, Len(shape))

RECURSIVE ISum(_, _)
ISum(f, n) == IF n = 0 THEN 0 ELSE ISum(f, n - 1) + f[n]

Offset(lay, shape, idx) ==
  IF lay = "C"
  THEN ISum([k \in 1..Len(shape) |-> idx[k] * Prod(shape, k + 1, Len(shape))], Len(shape))
  ELSE ISum([k \in 1..Len(shape) |-> idx[k] * Prod(shape, 1, k - 1)], Len(shape))

\* The multi-index stored at memory offset p.
Index(lay, shape, p) ==
  IF lay = "C"
  THEN [k \in 1..Len(shape) |-> (p \div Prod(shape, k + 1, Len(shape))) % shape[k]]
  ELSE [k \in 1..Len(shape) |-> (p \div Prod(shape, 1, k - 1)) % shape[k]]

Arr(shape, lay, data) == [shape |-> shape, lay |-> lay, data |-> Tuple(data)]
NoArr == Arr(<<>>, "C", <<>>)

At(a, idx) == a.data[Offset(a.lay, a.shape, idx) + 1]

\* A copy that keeps the memory order of a and only relabels the layout.
ConvertMemcpy(a, lay) == Arr(a.shape, lay, a.data)

\* Construction of an array with layout lay from a: same shape, elements
\* copied multi-index by multi-index.
Convert(a, lay) ==
  Arr(a.shape, lay, [q \in 1..ArrSize(a.shape) |-> At(a, Index(lay, a.shape, q - 1))])

\* nda::reshape: the same memory, read with a new shape in the same layout.
Reshape(a, shape) == Arr(shape, a.lay, a.data)

\* The trailing multi-indices of a shape, and the column of a at one of them.
TrailShape(shape) == [k \in 1..(Len(shape) - 1) |-> shape[k + 1]]
TrailIndices(shape) ==
  {Index("C", TrailShape(shape), p) : p \in 0..(ArrSize(TrailShape(shape)) - 1)}
ColumnAt(a, J) ==
  Arr(<<a.shape[1]>>, "C", [i \in 1..a.shape[1] |-> At(a, <<i - 1>> \o J)])
SliceAt(a, i) ==
  Arr(TrailShape(a.shape), "C",
      [q \in 1..ArrSize(TrailShape(a.shape)) |->
         At(a, <<i - 1>> \o Index("C", TrailShape(a.shape), q - 1))])

\* ------------------------------------------------------------ the transforms
\* The outcome of a call: status is "ok", "runtime_error" (the exception the
\* code throws) or "contract" (a call into nda outside its dimension
\* contract, which nda's EXPECTS rejects); out is the array returned.
Outcome(status, out) == [status |-> status, out |-> out]

ShapeOk(r, g) == Len(g.shape) >= 1 /\ r = g.shape[1]

\* getrs on the r x (size / r) matrix view of the Fortran-layout copy gf.
SolveColumns(op, gf, r) ==
  LET nc == Len(gf.data) \div r
      col(c) == Tuple([i \in 1..r |-> gf.data[(c - 1) * r + i]])
      sol == Tuple([c \in 1..nc |-> GetrsColumn(op.lu, col(c), op.piv)])
  IN  Arr(gf.shape, gf.lay, [q \in 1..Len(gf.data) |-> sol[((q - 1) \div r) + 1][((q - 1) % r) + 1]])

\* The body of vals2coefs once the shape check has passed: the copy gf in
\* Fortran layout, the solve on its matrix view, the result as a regular array.
SolveCopy(op, g) ==
  IF Extent0(op.lu) > op.r \/ Extent1(op.lu) # Extent0(op.lu) \/ Len(op.piv) < Extent0(op.lu)
  THEN Outcome("contract", NoArr)
  ELSE Outcome("ok", Convert(SolveColumns(op, Convert(g, "F"), op.r), "C"))

\* vals2coefs that cuts a longer input down to its leading r slices.
vals2coefsTruncating(op, g) ==
  IF ShapeOk(op.r, g) THEN SolveCopy(op, g)
  ELSE IF Len(g.shape) >= 1 /\ op.r >= 1 /\ op.r < g.shape[1]
  THEN LET shape == [k \in 1..Len(g.shape) |-> IF k = 1 THEN op.r ELSE g.shape[k]]
       IN  SolveCopy(op, Arr(shape, "C", [q \in 1..ArrSize(shape) |-> At(g, Index("C", shape, q - 1))]))
  ELSE Outcome("runtime_error", NoArr)

vals2coefs(op, g) ==
  IF ~ShapeOk(op.r, g) THEN Outcome("runtime_error", NoArr)
  ELSE SolveCopy(op, g)

\* cf2if * gc_rs: the product is a regular matrix, in nda's default C layout,
\* of extent(0) of cf2if rows.
MatMul(M, B) ==
  Arr(<<Extent0(M), B.shape[2]>>, "C",
      [q \in 1..(Extent0(M) * B.shape[2]) |->
         LET i == ((q - 1) \div B.shape[2]) + 1
             c == (q - 1) % B.shape[2]
         IN  CSum([j \in 1..B.shape[1] |-> CMul(M[i][j], At(B, <<j - 1, c>>))], B.shape[1])])

coefs2vals(op, gc) ==
  IF ~ShapeOk(op.r, gc) THEN Outcome("runtime_error", NoArr)
  ELSE LET r == op.r
           gc_rs == Reshape(gc, <<r, ArrSize(gc.shape) \div r>>)
       IN  IF Extent1(op.cf2if) # r THEN Outcome("contract", NoArr)
           ELSE LET g == MatMul(op.cf2if, gc_rs)
                    shape_out == [k \in 1..Len(gc.shape) |-> IF k = 1 THEN r ELSE gc.shape[k]]
                IN  IF ArrSize(shape_out) # Len(g.data) THEN Outcome("contract", NoArr)
                    ELSE Outcome("ok", Convert(Reshape(g, shape_out), "C"))

\* coefs2eval: for a vector of coefficients the scalar 0; otherwise the empty
\* matrix reshaped to the trailing shape of gc.
coefs2eval(op, gc, n, m) ==
  IF ~ShapeOk(op.r, gc) THEN Outcome("runtime_error", NoArr)
  ELSE IF Len(gc.shape) = 1 THEN Outcome("ok", Arr(<<>>, "C", <<CZero>>))
  ELSE LET shape_out == TrailShape(gc.shape)
       IN  IF ArrSize(shape_out) # 0 THEN Outcome("contract", NoArr)
           ELSE Outcome("ok", Arr(shape_out, "C", <<>>))

\* ------------------------------------------------------- the operator object
VARIABLES ops, file, ar, buf, last

vars == <<ops, file, ar, buf, last>>

\* The two objects of the driver program.
OpIds == {"ifops", "ifops_ref"}

\* What an uninitialized double or int may hold.
IndetVals == {0, 5}

\* The members of imfreq_ops_2d, in declaration order.
Operator(lambda_, eps_, r, dlr_rf, dlr2d_if, cf2if, lu, piv) ==
  [lambda_ |-> lambda_, eps_ |-> eps_, r |-> r, dlr_rf |-> dlr_rf,
   dlr2d_if |-> dlr2d_if, cf2if |-> cf2if, lu |-> lu, piv |-> piv]

\* imfreq_ops_2d() = default: the arrays are empty, the scalars are whatever
\* default initialization leaves (zero under value initialization).
DefaultOps == {Operator(j, j, j, <<>>, <<>>, <<>>, <<>>, <<>>) : j \in IndetVals}

\* The cutoffs and tolerance (as -log10) the driver constructs with.
Lambdas == {10 * k : k \in 1..MaxRank}
Epss == {5}

\* Number of nodes the selector returns for (lambda, eps).
DlrRank(lambda, eps) == lambda \div 10

\* build_dlr2d_if: the selected nodes, an n x 2 array of Matsubara indices,
\* one row <<n, m>> per node.
build_dlr2d_if(lambda, eps) ==
  [k \in 1..DlrRank(lambda, eps) |-> <<DlrRank(lambda, eps) - k, DlrRank(lambda, eps) - k>>]

\* cppdlr::build_dlr_rf: one real frequency per basis function.
build_dlr_rf(lambda, eps) ==
  [j \in 1..DlrRank(lambda, eps) |-> 2 * j - DlrRank(lambda, eps) - 1]

\* Basis function of real frequency w at the node <<n, m>>:
\* 1 / (i (2n + 1) + i (2m + 1) - w).
Kernel(node, w) == CInv(<<-w, 2 * node[1] + 2 * node[2] + 2, 1>>)

\* build_cf2if: entry (i, j) is basis function j at node i.
build_cf2if(lambda, dlr_rf, dlr2d_if) ==
  [i \in 1..Len(dlr2d_if) |-> [j \in 1..Len(dlr_rf) |-> Kernel(dlr2d_if[i], dlr_rf[j])]]

\* nda's size() of the n x 2 node array: the total number of elements.
NodeArraySize(dlr2d_if) == Len(dlr2d_if) * 2

\* imfreq_ops_2d(lambda, eps); junk is what nda::vector<int>(r) holds before
\* getrf writes the pivots.
FreshOp(lambda, eps, junk) ==
  LET dlr2d_if == build_dlr2d_if(lambda, eps)
      r == NodeArraySize(dlr2d_if)
      dlr_rf == build_dlr_rf(lambda, eps)
      cf2if == build_cf2if(lambda, dlr_rf, dlr2d_if)
      f == getrf(cf2if, [k \in 1..r |-> junk])
  IN  Operator(lambda, eps, r, dlr_rf, dlr2d_if, cf2if, f.lu, f.piv)

FreshOps == {FreshOp(l, e, j) : l \in Lambdas, e \in Epss, j \in IndetVals}

\* The reconstruction constructor: eps_ is not in the initializer list, so it
\* holds an indeterminate value indet; r is the column count of cf2if.
ReconstructOp(lambda, eps, dlr_rf, dlr2d_if, cf2if, if2cf_lu, if2cf_piv, indet) ==
  Operator(lambda, indet, Extent1(cf2if), dlr_rf, dlr2d_if, cf2if, if2cf_lu, if2cf_piv)

\* Fields a caller hands to the reconstruction constructor: a previously
\* computed set, the same with a real frequency missing, and the same with
\* the matrix itself in place of its LU factors.
SuppliedFields ==
  UNION {LET n == DlrRank(l, e)
             nodes == build_dlr2d_if(l, e)
             rf == build_dlr_rf(l, e)
             cf == build_cf2if(l, rf, nodes)
             f == getrf(cf, [k \in 1..n |-> 0])
             base == [lambda |-> l, eps |-> e, rf |-> rf, nodes |-> nodes, cf2if |-> cf,
                      lu |-> f.lu, piv |-> f.piv]
         IN  {base,
              [base EXCEPT !.rf = SubSeq(rf, 1, n - 1)],
              [base EXCEPT !.lu = cf, !.piv = [k \in 1..n |-> k]]}
         : l \in Lambdas, e \in Epss}

ReconstructedOps ==
  {ReconstructOp(s.lambda, s.eps, s.rf, s.nodes, s.cf2if, s.lu, s.piv, j) :
     s \in SuppliedFields, j \in IndetVals}

\* ------------------------------------------------------------ caller's arrays
Leads == 1..MaxRank
TrailShapes == {<<>>, <<MaxBatch>>, <<MaxBatch, MaxBatch + 1>>}
InShapes == {<<l>> \o t : l \in Leads, t \in TrailShapes}
Ramp(shape) == Arr(shape, "C", [q \in 1..ArrSize(shape) |-> CInt(q, (q * q) % 5)])
Inputs == {Ramp(shape) : shape \in InShapes}

\* Matsubara index pairs coefs2eval is called with: the candidate nodes and
\* one pair off the node set.
EvalPoints == {<<k, k>> : k \in 0..(MaxRank - 1)} \cup {<<0, 1>>}

\* The caller's array, and where it came from: src.target is "" for an array
\* the caller filled, else the object whose vals2coefs returned it from src.g
\* while that object was src.op.
NoSrc == [target |-> "", g |-> NoArr, op |-> Operator(0, 0, 0, <<>>, <<>>, <<>>, <<>>, <<>>)]
Buffer(arr, src) == [arr |-> arr, src |-> src]

\* The last call and its outcome: val is an integer result (rank(), the
\* number of fields or members read or written); at is the index pair of
\* coefs2eval.
Call(kind, target, status, out, val) ==
  [kind |-> kind, target |-> target, status |-> status, out |-> out, val |-> val,
   at |-> <<0, 0>>]

\* ----------------------------------------------------------------- HDF5 group
hdf5_format == "cppdlr::imfreq_ops"
OtherFormats == {"", "cppdlr::imtime_ops"}

NoFile ==
  [exists |-> FALSE, tag |-> "", lambda |-> 0, eps |-> 0, rf |-> <<>>, if_ |-> <<>>,
   cf2if |-> <<>>, if2cf_lu |-> <<>>, if2cf_piv |-> <<>>,
   written |-> Operator(0, 0, 0, <<>>, <<>>, <<>>, <<>>, <<>>)]

\* h5_write: the format tag, then the seven fields through the accessors.
\* written remembers the object the group was written from.
h5_write_group(m) ==
  [exists |-> TRUE, tag |-> hdf5_format, lambda |-> m.lambda_, eps |-> m.eps_,
   rf |-> m.dlr_rf, if_ |-> m.dlr2d_if, cf2if |-> m.cf2if, if2cf_lu |-> m.lu,
   if2cf_piv |-> m.piv, written |-> m]

\* A format check that lets every tag through.
FormatUnchecked(tag) == TRUE

\* assert_hdf5_format_as_string(gr, tag, true): an absent tag is let through.
FormatAccepted(tag) == tag = "" \/ tag = hdf5_format

NumFields == 7

H5Write(o) ==
  /\ file' = h5_write_group(ops[o])
  /\ last' = Call("h5_write", o, "ok", NoArr, NumFields)
  /\ UNCHANGED <<ops, ar, buf>>

\* Another writer stored the group under a different format tag, or none.
StoreOtherFormat(t) ==
  /\ file.exists
  /\ file.tag # t
  /\ file' = [file EXCEPT !.tag = t]
  /\ last' = Call("store", "", "ok", NoArr, 0)
  /\ UNCHANGED <<ops, ar, buf>>

H5Read(o) ==
  /\ UNCHANGED <<file, ar, buf>>
  /\ IF ~file.exists \/ ~FormatAccepted(file.tag)
     THEN /\ ops' = ops
          /\ last' = Call("h5_read", o, "runtime_error", NoArr, 0)
     ELSE \E indet \in IndetVals :
            /\ ops' = [ops EXCEPT ![o] =
                         ReconstructOp(file.lambda, file.eps, file.rf, file.if_, file.cf2if,
                                       file.if2cf_lu, file.if2cf_piv, indet)]
            /\ last' = Call("h5_read", o, "ok", NoArr, NumFields)

\* -------------------------------------------------------------- the archive
\* serialize: the members streamed into the archive, in this order.  from
\* remembers the object that was serialized.
ArchiveItems(m) == <<m.lambda_, m.r, m.dlr_rf, m.dlr2d_if, m.cf2if, m.lu, m.piv>>

NoArchive == [items |-> <<>>, from |-> Operator(0, 0, 0, <<>>, <<>>, <<>>, <<>>, <<>>)]

\* deserialize: the members are read in place, one after the other, as long
\* as the archive has items.
DeserializeInto(m, items) ==
  LET k == Len(items)
  IN  [m EXCEPT !.lambda_ = IF k >= 1 THEN items[1] ELSE @,
                !.r = IF k >= 2 THEN items[2] ELSE @,
                !.dlr_rf = IF k >= 3 THEN items[3] ELSE @,
                !.dlr2d_if = IF k >= 4 THEN items[4] ELSE @,
                !.cf2if = IF k >= 5 THEN items[5] ELSE @,
                !.lu = IF k >= 6 THEN items[6] ELSE @,
                !.piv = IF k >= 7 THEN items[7] ELSE @]

Serialize(o) ==
  /\ ar' = [items |-> ArchiveItems(ops[o]), from |-> ops[o]]
  /\ last' = Call("serialize", o, "ok", NoArr, Len(ArchiveItems(ops[o])))
  /\ UNCHANGED <<ops, file, buf>>

\* The archive reaches the reader cut short after k items.
Truncate(k) ==
  /\ k < Len(ar.items)
  /\ ar' = [ar EXCEPT !.items = SubSeq(ar.items, 1, k)]
  /\ last' = Call("truncate", "", "ok", NoArr, k)
  /\ UNCHANGED <<ops, file, buf>>

Deserialize(o) ==
  /\ ops' = [ops EXCEPT ![o] = DeserializeInto(ops[o], ar.items)]
  /\ last' = Call("deserialize", o,
                  IF Len(ar.items) >= Len(ArchiveItems(ops[o])) THEN "ok" ELSE "runtime_error",
                  NoArr, Len(ar.items))
  /\ UNCHANGED <<file, ar, buf>>

\* ------------------------------------------------------ transforms as actions
\* The caller fills its array.
SetInput(g) ==
  /\ buf.arr # g
  /\ buf' = Buffer(g, NoSrc)
  /\ last' = Call("input", "", "ok", NoArr, 0)
  /\ UNCHANGED <<ops, file, ar>>

\* The caller's array if getrs worked on g itself.
CallerArraySolvedInPlace(op, g) ==
  IF vals2coefs(op, g).status = "ok" THEN vals2coefs(op, g).out ELSE g

\* The caller's array after vals2coefs: g is taken by const reference and
\* getrs works on the copy gf.
CallerArrayAfter(op, g) == g

Vals2Coefs(o) ==
  /\ LET res == vals2coefs(ops[o], buf.arr)
     IN  last' = Call("vals2coefs", o, res.status, res.out, 0)
  /\ buf' = [buf EXCEPT !.arr = CallerArrayAfter(ops[o], buf.arr)]
  /\ UNCHANGED <<ops, file, ar>>

Coefs2Vals(o) ==
  /\ LET res == coefs2vals(ops[o], buf.arr)
     IN  last' = Call("coefs2vals", o, res.status, res.out, 0)
  /\ UNCHANGED <<ops, file, ar, buf>>

Coefs2Eval(o, n, m) ==
  /\ LET res == coefs2eval(ops[o], buf.arr, n, m)
     IN  last' = [Call("coefs2eval", o, res.status, res.out, 0) EXCEPT !.at = <<n, m>>]
  /\ UNCHANGED <<ops, file, ar, buf>>

\* The caller passes the coefficients vals2coefs returned on as its next input.
Feed ==
  /\ buf.src = NoSrc
  /\ last.kind = "vals2coefs"
  /\ last.status = "ok"
  /\ buf' = Buffer(last.out, [target |-> last.target, g |-> buf.arr, op |-> ops[last.target]])
  /\ last' = Call("input", "", "ok", NoArr, 0)
  /\ UNCHANGED <<ops, file, ar>>

\* rank(); the other accessors return the members the same way.
GetRank(o) ==
  /\ last.kind # "rank" \/ last.target # o
  /\ last' = Call("rank", o, "ok", NoArr, ops[o].r)
  /\ UNCHANGED <<ops, file, ar, buf>>

\* ----------------------------------------------------------- specifications
\* ifops is constructed by any of the three constructors, ifops_ref is
\* default-constructed as the target of h5_read / deserialize.
Init ==
  /\ ops \in [OpIds -> DefaultOps \cup FreshOps \cup ReconstructedOps]
  /\ ops["ifops_ref"] \in DefaultOps
  /\ file = NoFile
  /\ ar = NoArchive
  /\ buf \in {Buffer(g, NoSrc) : g \in Inputs}
  /\ last = Call("construct", "", "ok", NoArr, 0)

\* The driver's flow around the transforms: ifops is written, ifops_ref is
\* read back, and either object transforms the caller's arrays.
Next ==
  \/ H5Write("ifops")
  \/ H5Read("ifops_ref")
  \/ \E g \in Inputs : SetInput(g)
  \/ \E o \in OpIds : Vals2Coefs(o)
  \/ \E o \in OpIds : Coefs2Vals(o)
  \/ \E o \in OpIds, p \in EvalPoints : Coefs2Eval(o, p[1], p[2])
  \/ Feed
  \/ \E o \in OpIds : GetRank(o)

Spec == Init /\ [][Next]_vars

\* The HDF5 path on its own: groups written by this class and by others.
InitH5 ==
  /\ Init
  /\ buf = Buffer(Ramp(<<1>>), NoSrc)

NextH5 ==
  \/ \E o \in OpIds : H5Write(o)
  \/ \E t \in OtherFormats \cup {hdf5_format} : StoreOtherFormat(t)
  \/ \E o \in OpIds : H5Read(o)
  \/ \E o \in OpIds : GetRank(o)

SpecH5 == InitH5 /\ [][NextH5]_vars

\* The serialization path on its own: ifops is serialized into the one
\* archive, ifops_ref is deserialized from it.
InitAr == InitH5

NextAr ==
  \/ Serialize("ifops")
  \/ \E k \in 0..(NumFields - 1) : Truncate(k)
  \/ Deserialize("ifops_ref")
  \/ \E o \in OpIds : GetRank(o)

SpecAr == InitAr /\ [][NextAr]_vars

\* ------------------------------------------------------------------ claims
\* The shape invariant of the data model: r is the length of the real
\* frequency basis, the number of nodes, and the row and column count of
\* cf2if and the row count of the LU factors.
ShapeInvariant(op) ==
  /\ op.r = Len(op.dlr_rf)
  /\ op.r = Len(op.dlr2d_if)
  /\ op.r = Extent0(op.cf2if)
  /\ op.r = Extent1(op.cf2if)
  /\ op.r = Extent0(op.lu)

\* The arrays of the operator agree with each other on the rank.
ArraysAgree(op) ==
  /\ Len(op.dlr_rf) = Len(op.dlr2d_if)
  /\ Len(op.dlr2d_if) = Extent0(op.cf2if)
  /\ Extent0(op.cf2if) = Extent1(op.cf2if)
  /\ Extent0(op.cf2if) = Extent0(op.lu)

\* The two states of the operator: all arrays empty, or populated and
\* mutually consistent.
Uninitialized(op) ==
  op.dlr_rf = <<>> /\ op.dlr2d_if = <<>> /\ op.cf2if = <<>> /\ op.lu = <<>> /\ op.piv = <<>>
Ready(op) == op.r > 0 /\ ShapeInvariant(op)

\* The stored (lu, piv) is what getrf makes of cf2if.
IsFactorization(op) ==
  /\ Len(op.piv) >= Extent0(op.cf2if)
  /\ getrf(op.cf2if, op.piv) = [lu |-> op.lu, piv |-> op.piv]

TransformKinds == {"vals2coefs", "coefs2vals"}
Transformed(kind, op, g) == IF kind = "vals2coefs" THEN vals2coefs(op, g) ELSE coefs2vals(op, g)

\* C1: a call of vals2coefs or coefs2vals on an array whose leading-axis
\* length differs from the operator's r ends in the thrown runtime_error and
\* returns no array.
C1_ShapeMismatchThrows ==
  (last.kind \in TransformKinds /\ ~ShapeOk(ops[last.target].r, buf.arr))
    => (last.status = "runtime_error" /\ last.out = NoArr)

C1_Witness ==
  /\ last.kind = "vals2coefs"
  /\ Ready(ops[last.target])
  /\ buf.arr.shape[1] > ops[last.target].r
  /\ last.status = "runtime_error"

\* C2: after h5_read of a group that h5_write wrote from a ready operator A,
\* the target equals A in every member: lambda, eps, rank, real frequencies,
\* nodes, cf2if, LU factors and pivots.
C2_H5RoundTrip ==
  (last.kind = "h5_read" /\ last.status = "ok" /\ file.tag = hdf5_format /\ Ready(file.written))
    => ops[last.target] = file.written

\* C3: every operator a constructor produced (fresh, reconstructed, read
\* back by h5_read) from arrays that agree with each other has rank() equal
\* to the length of the real frequency basis, the number of nodes and the
\* row and column counts of cf2if and of the LU factors.
C3_ShapeInvariant ==
  \A o \in OpIds : (ops[o] \notin DefaultOps /\ ArraysAgree(ops[o])) => ShapeInvariant(ops[o])

\* C4: on a populated operator whose (lu, piv) is the LU factorization of
\* its cf2if, coefs2vals of what vals2coefs returned for g is g again, shape
\* included.
C4_RoundTrip ==
  (/\ last.kind = "coefs2vals"
   /\ buf.src.target = last.target
   /\ buf.src.op = ops[last.target]
   /\ ops[last.target].r > 0
   /\ IsFactorization(ops[last.target]))
    => (last.status = "ok" /\ last.out = buf.src.g)

\* The round trip does return g on the operators that satisfy the shape
\* invariant, those handed consistent fields or read back by h5_read.
RoundTripOnConsistent ==
  (/\ last.kind = "coefs2vals"
   /\ buf.src.target = last.target
   /\ buf.src.op = ops[last.target]
   /\ Ready(ops[last.target])
   /\ IsFactorization(ops[last.target]))
    => (last.status = "ok" /\ last.out = buf.src.g)

\* C5: h5_read of a group that carries a format tag other than the expected
\* one throws before any field is read and leaves every object as it was.
C5_FormatMismatchRejected ==
  [][(last'.kind = "h5_read" /\ file.exists /\ file.tag \notin {"", hdf5_format})
       => (last'.status = "runtime_error" /\ last'.val = 0 /\ ops' = ops)]_vars

C5_Witness ==
  /\ last.kind = "h5_read"
  /\ file.exists
  /\ file.tag \notin {"", hdf5_format}
  /\ Ready(file.written)
  /\ last.status = "runtime_error"
  /\ last.val = 0
  /\ ops[last.target] # file.written

\* C6: after deserialize of the archive serialize made of a ready operator A,
\* every member of the target equals A's.
C6_SerializeRoundTrip ==
  (last.kind = "deserialize" /\ last.status = "ok" /\ Ready(ar.from))
    => ops[last.target] = ar.from

\* C7: on a batched input the transform returns an array of the input's
\* shape whose column at every trailing multi-index J is the transform of
\* the input's column at J alone, and fails exactly when that one fails.
C7_BatchIndependence ==
  (last.kind \in TransformKinds /\ Len(buf.arr.shape) >= 2)
    => /\ last.status = "ok" => last.out.shape = buf.arr.shape
       /\ \A J \in TrailIndices(buf.arr.shape) :
            LET one == Transformed(last.kind, ops[last.target], ColumnAt(buf.arr, J))
            IN  /\ one.status = last.status
                /\ last.status = "ok" => ColumnAt(last.out, J) = one.out

C7_Witness ==
  /\ last.kind = "coefs2vals"
  /\ last.status = "ok"
  /\ Len(buf.arr.shape) = 3
  /\ buf.arr.shape[2] # buf.arr.shape[3]
  /\ ops[last.target].r >= 2
  /\ \A J \in TrailIndices(buf.arr.shape) :
       ColumnAt(last.out, J) = coefs2vals(ops[last.target], ColumnAt(buf.arr, J)).out

\* C8: coefs2eval at the i-th selected node returns slice i of coefs2vals of
\* the same coefficients.
C8_EvalAtNode ==
  (/\ last.kind = "coefs2eval"
   /\ Ready(ops[last.target])
   /\ ShapeOk(ops[last.target].r, buf.arr))
    => \A i \in 1..ops[last.target].r :
         ops[last.target].dlr2d_if[i] = last.at
           => /\ last.status = "ok"
              /\ last.out = SliceAt(coefs2vals(ops[last.target], buf.arr).out, i)

\* C9: a transform or accessor call, succeeding or failing, changes neither
\* an operator nor the caller's array.
C9_TransformsReadOnly ==
  [][last'.kind \in TransformKinds \cup {"coefs2eval", "rank"} => (ops' = ops /\ buf' = buf)]_vars

C9_Witness ==
  /\ last.kind = "vals2coefs"
  /\ last.status = "ok"
  /\ Ready(ops[last.target])
  /\ last.out # buf.arr
  /\ buf.src = NoSrc

\* C10: a failing h5_read, or a failing deserialize of the archive of a
\* ready operator, leaves its target uninitialized or ready, never in between.
C10_NoPartialState ==
  (/\ last.kind \in {"h5_read", "deserialize"}
   /\ last.status = "runtime_error"
   /\ last.kind = "deserialize" => Ready(ar.from))
    => (Uninitialized(ops[last.target]) \/ Ready(ops[last.target]))

====
